---- MODULE Spec2Model ----
(***************************************************************************)
(* Model of gozulipbot's message.go: message validation and routing        *)
(* (Bot.Message, Bot.PrivateMessage), request construction                 *)
(* (Bot.constructMessageRequest), reply routing (Bot.Respond,              *)
(* Bot.privateResponseList), the string-or-array decoder                   *)
(* (DisplayRecipient.UnmarshalJSON) and ParseEventMessages.                *)
(*                                                                         *)
(* A Go string is a sequence of tokens; "" is the empty sequence.  A       *)
(* one-character token stands for that character, a longer token for a     *)
(* literal of the source ("stream", "private").  Every public operation is *)
(* one action: it draws its arguments, runs the whole call and records     *)
(* the value returned, the requests handed to the transport's Do and the   *)
(* functions entered.                                                      *)
(***************************************************************************)
EXTENDS Integers, Sequences, FiniteSets, TLC

VARIABLES op, arg, ret, sent, trace

vars == <<op, arg, ret, sent, trace>>

----------------------------------------------------------------------------
(* Bounds of the explored inputs *)

MaxEmails == 2
MaxUsers == 2
MaxEvents == 2

----------------------------------------------------------------------------
(* Strings *)

EmptyString == <<>>

CommaSpace == <<",", " ">>

BotEmail == <<"z", "@", "x">>

EmailA == <<"a", "@", "x">>

EmailB == <<"b">>

EmailValues == {EmailA, EmailB, BotEmail}

StreamValues == {EmptyString, <<"g", " ", "1">>}

TopicValues == {EmptyString, <<"t", "1">>}

ContentValues == {EmptyString, <<"h", "i">>}

RECURSIVE SeqsUpTo(_, _)
SeqsUpTo(S, n) ==
    IF n = 0 THEN {<<>>}
    ELSE LET shorter == SeqsUpTo(S, n - 1)
         IN  shorter \cup {Append(s, x) : s \in {t \in shorter : Len(t) = n - 1}, x \in S}

----------------------------------------------------------------------------
(* Errors: nil is the empty tuple, an error is its message (and, for a     *)
(* formatted error, the value formatted into it).                          *)

NoErr == <<>>

NewError(msg) == <<msg>>

NoResponse == "nil"

(* The Bot value the operations are called on (its Email field). *)
bot == [Email |-> BotEmail]

(* What the transport's Do can answer: a response without error, or an     *)
(* error without response.                                                 *)
TransportOutcomes ==
    { [resp |-> "response200", err |-> NoErr],
      [resp |-> "response400", err |-> NoErr],
      [resp |-> NoResponse, err |-> NewError("transport failure")] }

(* b.client.Do(req): the request is handed over, the outcome comes back. *)
Do(req, outcome) ==
    [resp |-> outcome.resp, err |-> outcome.err, sent |-> <<req>>, trace |-> <<"Do">>]

(* An early `return nil, err` of a function that has not reached Do. *)
Fail(err, fn) ==
    [resp |-> NoResponse, err |-> err, sent |-> <<>>, trace |-> <<fn>>]

(* A callee's result seen from its caller `fn`. *)
Via(fn, r) == [r EXCEPT !.trace = <<fn>> \o r.trace]

----------------------------------------------------------------------------
(* url.Values.Encode: keys in sorted order, each value query-escaped.      *)

QueryEscapeToken(c) ==
    CASE c = " " -> <<"+">>
      [] c = "," -> <<"%", "2", "C">>
      [] c = "@" -> <<"%", "4", "0">>
      [] c = "%" -> <<"%", "2", "5">>
      [] c = "+" -> <<"%", "2", "B">>
      [] OTHER -> <<c>>

RECURSIVE QueryEscape(_)
QueryEscape(s) ==
    IF s = <<>> THEN <<>> ELSE QueryEscapeToken(Head(s)) \o QueryEscape(Tail(s))

UnescapeHex(h1, h2) ==
    CASE h1 = "2" /\ h2 = "C" -> ","
      [] h1 = "4" /\ h2 = "0" -> "@"
      [] h1 = "2" /\ h2 = "5" -> "%"
      [] h1 = "2" /\ h2 = "B" -> "+"
      [] OTHER -> "?"

RECURSIVE QueryUnescape(_)
QueryUnescape(s) ==
    IF s = <<>> THEN <<>>
    ELSE IF Head(s) = "+" THEN <<" ">> \o QueryUnescape(Tail(s))
    ELSE IF Head(s) = "%" /\ Len(s) >= 3
         THEN <<UnescapeHex(s[2], s[3])>> \o QueryUnescape(SubSeq(s, 4, Len(s)))
    ELSE <<Head(s)>> \o QueryUnescape(Tail(s))

SortedKeys == <<"content", "subject", "to", "type">>

Encode(values) ==
    LET present == SelectSeq(SortedKeys, LAMBDA k : k \in DOMAIN values)
    IN  [i \in 1..Len(present) |-> <<present[i], QueryEscape(values[present[i]])>>]

(* The form of a request body as the receiving side parses it: the keys    *)
(* present, and the unescaped value of a key.                              *)
FormKeys(body) == {body[i][1] : i \in 1..Len(body)}

FormValue(body, key) ==
    LET i == CHOOSE j \in 1..Len(body) : body[j][1] = key
    IN  QueryUnescape(body[i][2])

(* b.constructRequest(method, endpoint, body): the request carrying        *)
(* method, target path and body.                                           *)
constructRequest(method, endpoint, body) ==
    [req |-> [Method |-> method, Path |-> endpoint, Body |-> body], err |-> NoErr]

----------------------------------------------------------------------------
(* Bot.constructMessageRequest *)

(* The loop `for i, e := range m.Emails` started at index i with `to`. *)
RECURSIVE AppendEmails(_, _, _)
AppendEmails(to, emails, i) ==
    IF i > Len(emails) THEN to
    ELSE AppendEmails((to \o emails[i]) \o (IF i # Len(emails) THEN CommaSpace ELSE <<>>),
                      emails, i + 1)

(* The `to` and `type` locals after the three `if le ...` statements. *)
ToField(m) ==
    LET le == Len(m.Emails)
        to0 == m.Stream
        to1 == IF le = 1 THEN m.Emails[1] ELSE to0
    IN  IF le > 1 THEN AppendEmails(to1, m.Emails, 1) ELSE to1

TypeField(m) == IF Len(m.Emails) # 0 THEN <<"private">> ELSE <<"stream">>

FormValues(m) ==
    LET mtype == TypeField(m)
        base == [k \in {"type", "to", "content"} |->
                    CASE k = "type" -> mtype
                      [] k = "to" -> ToField(m)
                      [] k = "content" -> m.Content]
    IN  IF mtype = <<"stream">>
        THEN [k \in {"type", "to", "content", "subject"} |->
                 IF k = "subject" THEN m.Topic ELSE base[k]]
        ELSE base

constructMessageRequest(b, m) ==
    constructRequest("POST", "messages", Encode(FormValues(m)))

----------------------------------------------------------------------------
(* Bot.PrivateMessage and Bot.Message *)

PrivateMessage(b, m, outcome) ==
    IF Len(m.Emails) = 0
    THEN Fail(NewError("there must be at least one recipient"), "PrivateMessage")
    ELSE LET r == constructMessageRequest(b, m)
         IN  IF r.err # NoErr
             THEN Fail(r.err, "PrivateMessage")
             ELSE Via("PrivateMessage", Do(r.req, outcome))

(* Message without the Content check. *)
MessageSkipsContentCheck(b, m, outcome) ==
    IF Len(m.Emails) # 0
    THEN Via("Message", PrivateMessage(b, m, outcome))
    ELSE IF m.Stream = EmptyString
    THEN Fail(NewError("stream cannot be empty"), "Message")
    ELSE IF m.Topic = EmptyString
    THEN Fail(NewError("topic cannot be empty"), "Message")
    ELSE LET r == constructMessageRequest(b, m)
         IN  IF r.err # NoErr
             THEN Fail(r.err, "Message")
             ELSE Via("Message", Do(r.req, outcome))

(* Message with the Stream and Topic checks ahead of the Emails test. *)
MessageStreamCheckFirst(b, m, outcome) ==
    IF m.Content = EmptyString
    THEN Fail(NewError("content cannot be empty"), "Message")
    ELSE IF m.Stream = EmptyString
    THEN Fail(NewError("stream cannot be empty"), "Message")
    ELSE IF m.Topic = EmptyString
    THEN Fail(NewError("topic cannot be empty"), "Message")
    ELSE IF Len(m.Emails) # 0
    THEN Via("Message", PrivateMessage(b, m, outcome))
    ELSE LET r == constructMessageRequest(b, m)
         IN  IF r.err # NoErr
             THEN Fail(r.err, "Message")
             ELSE Via("Message", Do(r.req, outcome))

(* Message without the Topic check. *)
MessageSkipsTopicCheck(b, m, outcome) ==
    IF m.Content = EmptyString
    THEN Fail(NewError("content cannot be empty"), "Message")
    ELSE IF Len(m.Emails) # 0
    THEN Via("Message", PrivateMessage(b, m, outcome))
    ELSE IF m.Stream = EmptyString
    THEN Fail(NewError("stream cannot be empty"), "Message")
    ELSE LET r == constructMessageRequest(b, m)
         IN  IF r.err # NoErr
             THEN Fail(r.err, "Message")
             ELSE Via("Message", Do(r.req, outcome))

Message(b, m, outcome) ==
    IF m.Content = EmptyString
    THEN Fail(NewError("content cannot be empty"), "Message")
    ELSE IF Len(m.Emails) # 0
    THEN Via("Message", PrivateMessage(b, m, outcome))
    ELSE IF m.Stream = EmptyString
    THEN Fail(NewError("stream cannot be empty"), "Message")
    ELSE IF m.Topic = EmptyString
    THEN Fail(NewError("topic cannot be empty"), "Message")
    ELSE LET r == constructMessageRequest(b, m)
         IN  IF r.err # NoErr
             THEN Fail(r.err, "Message")
             ELSE Via("Message", Do(r.req, outcome))

----------------------------------------------------------------------------
(* Go slices ([]User, []EventMessage): nil, or a possibly empty sequence.  *)

NilSlice == [isNil |-> TRUE, elems |-> <<>>]

Slice(s) == [isNil |-> FALSE, elems |-> s]

(* The User fields the operations read. *)
NewUser(email) == [Email |-> email]

ZeroUser == NewUser(EmptyString)

ZeroDisplayRecipient == [Users |-> NilSlice, Topic |-> EmptyString]

ZeroEventMessage ==
    [DisplayRecipient |-> ZeroDisplayRecipient, Subject |-> EmptyString,
     Content |-> EmptyString]

----------------------------------------------------------------------------
(* Bot.privateResponseList and Bot.Respond *)

(* The loop `for _, u := range e.DisplayRecipient.Users` from index i. *)
RECURSIVE OtherEmails(_, _, _, _)
OtherEmails(b, users, i, out) ==
    IF i > Len(users) THEN out
    ELSE OtherEmails(b, users, i + 1,
                     IF users[i].Email # b.Email THEN Append(out, users[i].Email) ELSE out)

(* privateResponseList that keeps the bot's own email. *)
privateResponseListKeepsBot(b, e) ==
    LET users == e.DisplayRecipient.Users.elems
        out == [i \in 1..Len(users) |-> users[i].Email]
    IN  IF Len(out) = 0
        THEN [emails |-> <<>>,
              err |-> NewError("EventMessage had no Users within the DisplayRecipient")]
        ELSE [emails |-> out, err |-> NoErr]

privateResponseList(b, e) ==
    LET out == OtherEmails(b, e.DisplayRecipient.Users.elems, 1, <<>>)
    IN  IF Len(out) = 0
        THEN [emails |-> <<>>,
              err |-> NewError("EventMessage had no Users within the DisplayRecipient")]
        ELSE [emails |-> out, err |-> NoErr]

(* Respond that tests for an empty Stream before it tests the Topic. *)
RespondPrivateFirst(b, e, response, outcome) ==
    IF response = EmptyString
    THEN Fail(NewError("Message response cannot be blank"), "Respond")
    ELSE LET m == [Stream |-> e.DisplayRecipient.Topic, Topic |-> e.Subject,
                   Emails |-> <<>>, Content |-> response]
         IN  IF m.Stream = EmptyString
             THEN LET l == privateResponseList(b, e)
                  IN  IF l.err # NoErr
                      THEN Via("Respond", Fail(l.err, "privateResponseList"))
                      ELSE Via("Respond", Via("privateResponseList",
                               Message(b, [m EXCEPT !.Emails = l.emails], outcome)))
             ELSE IF m.Topic # EmptyString
             THEN Via("Respond", Message(b, m, outcome))
             ELSE Fail(<<"EventMessage is not understood: %v\n", e>>, "Respond")

(* Respond that takes every event without a Subject for a private one. *)
RespondNoFallback(b, e, response, outcome) ==
    IF response = EmptyString
    THEN Fail(NewError("Message response cannot be blank"), "Respond")
    ELSE LET m == [Stream |-> e.DisplayRecipient.Topic, Topic |-> e.Subject,
                   Emails |-> <<>>, Content |-> response]
         IN  IF m.Topic # EmptyString
             THEN Via("Respond", Message(b, m, outcome))
             ELSE LET l == privateResponseList(b, e)
                  IN  IF l.err # NoErr
                      THEN Via("Respond", Fail(l.err, "privateResponseList"))
                      ELSE Via("Respond", Via("privateResponseList",
                               Message(b, [m EXCEPT !.Emails = l.emails], outcome)))

Respond(b, e, response, outcome) ==
    IF response = EmptyString
    THEN Fail(NewError("Message response cannot be blank"), "Respond")
    ELSE LET m == [Stream |-> e.DisplayRecipient.Topic, Topic |-> e.Subject,
                   Emails |-> <<>>, Content |-> response]
         IN  IF m.Topic # EmptyString
             THEN Via("Respond", Message(b, m, outcome))
             ELSE IF m.Stream = EmptyString
             THEN LET l == privateResponseList(b, e)
                  IN  IF l.err # NoErr
                      THEN Via("Respond", Fail(l.err, "privateResponseList"))
                      ELSE Via("Respond", Via("privateResponseList",
                               Message(b, [m EXCEPT !.Emails = l.emails], outcome)))
             ELSE Fail(<<"EventMessage is not understood: %v\n", e>>, "Respond")

----------------------------------------------------------------------------
(* JSON texts, and json.Unmarshal into the target types the source uses.   *)
(* EmptyBytes is the zero json.RawMessage a map lookup of an absent key    *)
(* gives; InvalidBytes is text that is not JSON.                           *)

JString(s) == [kind |-> "string", val |-> s]

JArray(elems) == [kind |-> "array", val |-> elems]

JObject(fields) == [kind |-> "object", val |-> fields]

JNull == [kind |-> "null", val |-> <<>>]

JNumber == [kind |-> "number", val |-> <<"7">>]

EmptyBytes == [kind |-> "empty", val |-> <<>>]

InvalidBytes == [kind |-> "invalid", val |-> <<>>]

SyntaxError == NewError("json: syntax error")

EndOfInputError == NewError("unexpected end of JSON input")

TypeError(target) == <<"json: cannot unmarshal into Go value", target>>

(* The check json.Unmarshal makes before it decodes anything. *)
ScanError(raw) ==
    CASE raw.kind = "empty" -> EndOfInputError
      [] raw.kind = "invalid" -> SyntaxError
      [] OTHER -> NoErr

(* json.Unmarshal(b, &topic), topic a string holding cur. *)
UnmarshalString(raw, cur) ==
    IF ScanError(raw) # NoErr THEN [val |-> cur, err |-> ScanError(raw)]
    ELSE CASE raw.kind = "string" -> [val |-> raw.val, err |-> NoErr]
           [] raw.kind = "null" -> [val |-> cur, err |-> NoErr]
           [] OTHER -> [val |-> cur, err |-> TypeError("string")]

(* One array element decoded into a User. *)
UnmarshalUser(raw) ==
    CASE raw.kind = "object" ->
            IF "email" \in DOMAIN raw.val
            THEN LET r == UnmarshalString(raw.val["email"], EmptyString)
                 IN  [val |-> NewUser(r.val), err |-> r.err]
            ELSE [val |-> ZeroUser, err |-> NoErr]
      [] raw.kind = "null" -> [val |-> ZeroUser, err |-> NoErr]
      [] OTHER -> [val |-> ZeroUser, err |-> TypeError("User")]

FirstError(errs) ==
    LET bad == SelectSeq(errs, LAMBDA x : x # NoErr)
    IN  IF bad = <<>> THEN NoErr ELSE Head(bad)

(* json.Unmarshal(b, &users), users a []User holding cur. *)
UnmarshalUsers(raw, cur) ==
    IF ScanError(raw) # NoErr THEN [val |-> cur, err |-> ScanError(raw)]
    ELSE CASE raw.kind = "array" ->
                LET rs == [i \in 1..Len(raw.val) |-> UnmarshalUser(raw.val[i])]
                IN  [val |-> Slice([i \in 1..Len(rs) |-> rs[i].val]),
                     err |-> FirstError([i \in 1..Len(rs) |-> rs[i].err])]
           [] raw.kind = "null" -> [val |-> NilSlice, err |-> NoErr]
           [] OTHER -> [val |-> cur, err |-> TypeError("[]User")]

(* DisplayRecipient.UnmarshalJSON on receiver d.  `assigned` names the     *)
(* fields of d the call stored into.                                       *)
(* UnmarshalJSON that stores the users local along with the topic. *)
UnmarshalJSONStoresBoth(d, raw) ==
    LET topic == EmptyString
        users == Slice(<<ZeroUser>>)
        r1 == UnmarshalString(raw, topic)
        r2 == UnmarshalUsers(raw, users)
    IN  IF r1.err = NoErr
        THEN [d |-> [d EXCEPT !.Topic = r1.val, !.Users = users], err |-> NoErr,
              assigned |-> {"Topic", "Users"}]
        ELSE IF r2.err = NoErr
        THEN [d |-> [d EXCEPT !.Users = r2.val], err |-> NoErr, assigned |-> {"Users"}]
        ELSE [d |-> d, err |-> r2.err, assigned |-> {}]

UnmarshalJSON(d, raw) ==
    LET topic == EmptyString
        users == Slice(<<ZeroUser>>)
        r1 == UnmarshalString(raw, topic)
        r2 == UnmarshalUsers(raw, users)
    IN  IF r1.err = NoErr
        THEN [d |-> [d EXCEPT !.Topic = r1.val], err |-> NoErr, assigned |-> {"Topic"}]
        ELSE IF r2.err = NoErr
        THEN [d |-> [d EXCEPT !.Users = r2.val], err |-> NoErr, assigned |-> {"Users"}]
        ELSE [d |-> d, err |-> r2.err, assigned |-> {}]

(* json.Unmarshal(event["message"], &msg), msg a zero EventMessage. *)
UnmarshalEventMessage(raw) ==
    IF ScanError(raw) # NoErr THEN [val |-> ZeroEventMessage, err |-> ScanError(raw)]
    ELSE CASE raw.kind = "object" ->
                LET f == raw.val
                    c == IF "content" \in DOMAIN f
                         THEN UnmarshalString(f["content"], EmptyString)
                         ELSE [val |-> EmptyString, err |-> NoErr]
                    dr == IF "display_recipient" \in DOMAIN f
                          THEN UnmarshalJSON(ZeroDisplayRecipient, f["display_recipient"])
                          ELSE [d |-> ZeroDisplayRecipient, err |-> NoErr, assigned |-> {}]
                    s == IF "subject" \in DOMAIN f
                         THEN UnmarshalString(f["subject"], EmptyString)
                         ELSE [val |-> EmptyString, err |-> NoErr]
                IN  [val |-> [DisplayRecipient |-> dr.d, Subject |-> s.val, Content |-> c.val],
                     err |-> FirstError(<<c.err, dr.err, s.err>>)]
           [] raw.kind = "null" -> [val |-> ZeroEventMessage, err |-> NoErr]
           [] OTHER -> [val |-> ZeroEventMessage, err |-> TypeError("EventMessage")]

(* json.Unmarshal into a map[string]json.RawMessage: the raw members of an *)
(* object; null leaves the map as it is.                                   *)
UnmarshalRawMap(raw, cur) ==
    IF ScanError(raw) # NoErr THEN [val |-> cur, err |-> ScanError(raw)]
    ELSE CASE raw.kind = "object" -> [val |-> raw.val, err |-> NoErr]
           [] raw.kind = "null" -> [val |-> cur, err |-> NoErr]
           [] OTHER -> [val |-> cur, err |-> TypeError("map[string]json.RawMessage")]

EmptyMap == [k \in {} |-> EmptyBytes]

(* m[key] of a map[string]json.RawMessage. *)
Lookup(m, key) == IF key \in DOMAIN m THEN m[key] ELSE EmptyBytes

(* json.Unmarshal(rawResponse["events"], &events). *)
UnmarshalEvents(raw, cur) ==
    IF ScanError(raw) # NoErr THEN [val |-> cur, err |-> ScanError(raw)]
    ELSE CASE raw.kind = "array" ->
                LET rs == [i \in 1..Len(raw.val) |-> UnmarshalRawMap(raw.val[i], EmptyMap)]
                IN  [val |-> Slice([i \in 1..Len(rs) |-> rs[i].val]),
                     err |-> FirstError([i \in 1..Len(rs) |-> rs[i].err])]
           [] raw.kind = "null" -> [val |-> NilSlice, err |-> NoErr]
           [] OTHER -> [val |-> cur, err |-> TypeError("[]map[string]json.RawMessage")]

----------------------------------------------------------------------------
(* ParseEventMessages *)

(* The loop `for _, event := range events` from index i. *)
RECURSIVE DecodeEvents(_, _, _)
DecodeEvents(events, i, messages) ==
    IF i > Len(events) THEN [msgs |-> Slice(messages), err |-> NoErr]
    ELSE LET r == UnmarshalEventMessage(Lookup(events[i], "message"))
         IN  IF r.err # NoErr
             THEN [msgs |-> NilSlice, err |-> r.err]
             ELSE DecodeEvents(events, i + 1, Append(messages, r.val))

(* ParseEventMessages that takes a missing "events" key for no events. *)
ParseEventMessagesAbsentAsEmpty(rawEventResponse) ==
    LET rawResponse == UnmarshalRawMap(rawEventResponse, EmptyMap)
    IN  IF rawResponse.err # NoErr
        THEN [msgs |-> NilSlice, err |-> rawResponse.err]
        ELSE IF "events" \notin DOMAIN rawResponse.val
        THEN [msgs |-> Slice(<<>>), err |-> NoErr]
        ELSE LET events == UnmarshalEvents(Lookup(rawResponse.val, "events"), Slice(<<>>))
             IN  IF events.err # NoErr
                 THEN [msgs |-> NilSlice, err |-> events.err]
                 ELSE DecodeEvents(events.val.elems, 1, <<>>)

ParseEventMessages(rawEventResponse) ==
    LET rawResponse == UnmarshalRawMap(rawEventResponse, EmptyMap)
    IN  IF rawResponse.err # NoErr
        THEN [msgs |-> NilSlice, err |-> rawResponse.err]
        ELSE LET events == UnmarshalEvents(Lookup(rawResponse.val, "events"), Slice(<<>>))
             IN  IF events.err # NoErr
                 THEN [msgs |-> NilSlice, err |-> events.err]
                 ELSE DecodeEvents(events.val.elems, 1, <<>>)

----------------------------------------------------------------------------
(* State machine *)

Messages ==
    [Stream : StreamValues, Topic : TopicValues,
     Emails : SeqsUpTo(EmailValues, MaxEmails), Content : ContentValues]

UserSlices ==
    {NilSlice} \cup {Slice(s) : s \in SeqsUpTo({NewUser(x) : x \in EmailValues}, MaxUsers)}

EventMessages ==
    [DisplayRecipient : [Users : UserSlices, Topic : StreamValues],
     Subject : TopicValues, Content : {<<"q">>}]

(* display_recipient values: strings and arrays of user records (the      *)
(* well-formed ones), and null, a number, an array holding a number.       *)
UserObjects == {JObject([k \in {"email"} |-> JString(x)]) : x \in EmailValues}

WellFormedRecipients ==
    {JString(s) : s \in StreamValues}
        \cup {JArray(a) : a \in SeqsUpTo(UserObjects, MaxUsers)}

RecipientTexts ==
    WellFormedRecipients \cup {JNull, JNumber, JArray(<<JNumber>>), InvalidBytes}

MessageObjects ==
    { JObject([k \in {"content", "display_recipient", "subject"} |->
                  CASE k = "content" -> JString(<<"q">>)
                    [] k = "display_recipient" -> JString(<<"g", " ", "1">>)
                    [] k = "subject" -> JString(<<"t", "1">>)]),
      JObject([k \in {"content", "display_recipient", "subject"} |->
                  CASE k = "content" -> JString(<<"q">>)
                    [] k = "display_recipient" ->
                          JArray(<<JObject([j \in {"email"} |-> JString(EmailA)])>>)
                    [] k = "subject" -> JString(EmptyString)]),
      JObject([k \in {"display_recipient"} |-> JNumber]),
      JNumber }

EventObjects ==
    {JObject([k \in {"message"} |-> x]) : x \in MessageObjects}
        \cup {JObject([k \in {"type"} |-> JString(<<"heartbeat">>)]), JString(<<"e">>)}

EventsValues ==
    {JArray(a) : a \in SeqsUpTo(EventObjects, MaxEvents)} \cup {JNull, JString(<<"e">>)}

EventResponses ==
    {JObject([k \in {"events", "result"} |->
                 IF k = "events" THEN ev ELSE JString(<<"success">>)]) : ev \in EventsValues}
        \cup {JObject([k \in {"result"} |-> JString(<<"error">>)]),
              JObject(EmptyMap), JNull, JNumber, InvalidBytes, EmptyBytes}

Init ==
    /\ op = "idle"
    /\ arg = <<>>
    /\ ret = <<>>
    /\ sent = <<>>
    /\ trace = <<>>

Returns(r) ==
    /\ ret' = [resp |-> r.resp, err |-> r.err]
    /\ sent' = r.sent
    /\ trace' = r.trace

CallMessage ==
    /\ op = "idle"
    /\ \E m \in Messages, outcome \in TransportOutcomes :
        /\ op' = "Message"
        /\ arg' = [m |-> m, outcome |-> outcome]
        /\ Returns(Message(bot, m, outcome))

CallPrivateMessage ==
    /\ op = "idle"
    /\ \E m \in Messages, outcome \in TransportOutcomes :
        /\ op' = "PrivateMessage"
        /\ arg' = [m |-> m, outcome |-> outcome]
        /\ Returns(PrivateMessage(bot, m, outcome))

CallRespond ==
    /\ op = "idle"
    /\ \E e \in EventMessages, response \in ContentValues, outcome \in TransportOutcomes :
        /\ op' = "Respond"
        /\ arg' = [e |-> e, response |-> response, outcome |-> outcome]
        /\ Returns(Respond(bot, e, response, outcome))

CallUnmarshalJSON ==
    /\ op = "idle"
    /\ \E raw \in RecipientTexts :
        /\ op' = "UnmarshalJSON"
        /\ arg' = [d |-> ZeroDisplayRecipient, b |-> raw]
        /\ ret' = UnmarshalJSON(ZeroDisplayRecipient, raw)
        /\ sent' = <<>>
        /\ trace' = <<"UnmarshalJSON">>

CallParseEventMessages ==
    /\ op = "idle"
    /\ \E raw \in EventResponses :
        /\ op' = "ParseEventMessages"
        /\ arg' = [rawEventResponse |-> raw]
        /\ ret' = ParseEventMessages(raw)
        /\ sent' = <<>>
        /\ trace' = <<"ParseEventMessages">>

(* The call has returned; its arguments, locals and results are dropped. *)
Return ==
    /\ op # "idle"
    /\ op' = "idle"
    /\ arg' = <<>>
    /\ ret' = <<>>
    /\ sent' = <<>>
    /\ trace' = <<>>

Next ==
    \/ CallMessage
    \/ CallPrivateMessage
    \/ CallRespond
    \/ CallUnmarshalJSON
    \/ CallParseEventMessages
    \/ Return

Spec == Init /\ [][Next]_vars

----------------------------------------------------------------------------
(* Properties *)

Range(f) == {f[i] : i \in DOMAIN f}

(* s[1] sep s[2] sep ... s[n], built from the last element backwards. *)
RECURSIVE JoinWith(_, _)
JoinWith(s, sep) ==
    IF Len(s) = 0 THEN <<>>
    ELSE IF Len(s) = 1 THEN s[1]
    ELSE JoinWith(SubSeq(s, 1, Len(s) - 1), sep) \o sep \o s[Len(s)]

(* The one request of a call that reached the transport once. *)
TheRequest == sent[1]

SentOnce == Len(sent) = 1 /\ Len(SelectSeq(trace, LAMBDA f : f = "Do")) = 1

NeverSent == sent = <<>> /\ "Do" \notin Range(trace)

ReturnsTransportOutcome == ret.resp = arg.outcome.resp /\ ret.err = arg.outcome.err

(* C1: Bot.Message on a message with empty Content returns the "content    *)
(* cannot be empty" validation error and never invokes the transport's Do, *)
(* whatever Stream, Topic and Emails are.                                  *)
C1_EmptyContentRejected ==
    (op = "Message" /\ arg.m.Content = EmptyString)
        => /\ ret.err = NewError("content cannot be empty")
           /\ ret.resp = NoResponse
           /\ NeverSent

(* C1 witness: Message was called with empty Content on a message that     *)
(* has recipients, a stream and a topic, and nothing was sent.             *)
C1_Witness ==
    /\ op = "Message"
    /\ arg.m.Content = EmptyString
    /\ Len(arg.m.Emails) = 2
    /\ arg.m.Stream # EmptyString
    /\ arg.m.Topic # EmptyString
    /\ ret.err # NoErr
    /\ sent = <<>>

(* C2: Bot.Message on a message with non-empty Emails and non-empty        *)
(* Content takes the private path whatever Stream and Topic are: it goes   *)
(* through PrivateMessage, returns no validation error (only what the      *)
(* transport answers), invokes the transport exactly once, and the body    *)
(* has type == "private" and no subject key.                               *)
C2_EmailsRoutePrivate ==
    (op = "Message" /\ Len(arg.m.Emails) # 0 /\ arg.m.Content # EmptyString)
        => /\ trace = <<"Message", "PrivateMessage", "Do">>
           /\ SentOnce
           /\ ReturnsTransportOutcome
           /\ FormValue(TheRequest.Body, "type") = <<"private">>
           /\ "subject" \notin FormKeys(TheRequest.Body)

(* C2 witness: a message with recipients and with an empty Stream and      *)
(* Topic went out as a private request.                                    *)
C2_Witness ==
    /\ op = "Message"
    /\ Len(arg.m.Emails) # 0
    /\ arg.m.Content # EmptyString
    /\ arg.m.Stream = EmptyString
    /\ arg.m.Topic = EmptyString
    /\ Len(sent) = 1
    /\ FormValue(TheRequest.Body, "type") = <<"private">>

(* The `to` value C3 states for a message. *)
StatedTo(m) ==
    IF Len(m.Emails) = 1 THEN m.Emails[1]
    ELSE IF Len(m.Emails) >= 2 THEN JoinWith(m.Emails, CommaSpace)
    ELSE m.Stream

(* C3: in every request built by constructMessageRequest the `to` field is *)
(* Emails[0] for exactly one email, the emails joined with ", " in order   *)
(* and nothing else for two or more, and Stream for zero emails, also      *)
(* when both Stream and Emails are set.                                    *)
C3_ToField ==
    (op \in {"Message", "PrivateMessage"} /\ Len(sent) = 1)
        => FormValue(TheRequest.Body, "to") = StatedTo(arg.m)

(* C4 (as stated): ParseEventMessages returns an empty sequence and no     *)
(* error both when "events" holds an empty array and when the top-level    *)
(* object has no "events" key.                                             *)
EventsEmptyArray(raw) ==
    /\ raw.kind = "object"
    /\ "events" \in DOMAIN raw.val
    /\ raw.val["events"] = JArray(<<>>)

EventsAbsent(raw) == raw.kind = "object" /\ "events" \notin DOMAIN raw.val

C4_AbsentOrEmptyGivesEmpty ==
    (op = "ParseEventMessages"
        /\ (EventsEmptyArray(arg.rawEventResponse) \/ EventsAbsent(arg.rawEventResponse)))
        => ret.err = NoErr /\ ret.msgs = Slice(<<>>)

(* C4 (amended): ParseEventMessages returns an empty sequence and no error *)
(* when "events" holds an empty array; when the top-level object has no    *)
(* "events" key it returns a nil sequence and the decode error             *)
(* "unexpected end of JSON input".                                         *)
C4_EmptyGivesEmptyAbsentFails ==
    op = "ParseEventMessages"
        => /\ EventsEmptyArray(arg.rawEventResponse)
                => ret.err = NoErr /\ ret.msgs = Slice(<<>>)
           /\ EventsAbsent(arg.rawEventResponse)
                => ret.err = EndOfInputError /\ ret.msgs = NilSlice

(* C4 witness: a response object without an "events" key was parsed. *)
C4_Witness ==
    /\ op = "ParseEventMessages"
    /\ EventsAbsent(arg.rawEventResponse)
    /\ "result" \in DOMAIN arg.rawEventResponse.val
    /\ ret.err # NoErr

(* The stream request Respond sends for event e and reply text. *)
StreamReplySent(e, response) ==
    /\ SentOnce
    /\ FormValue(TheRequest.Body, "type") = <<"stream">>
    /\ FormValue(TheRequest.Body, "to") = e.DisplayRecipient.Topic
    /\ FormValue(TheRequest.Body, "subject") = e.Subject
    /\ FormValue(TheRequest.Body, "content") = response

(* C5 (as stated): for every non-empty reply and every event with a        *)
(* non-empty Subject, Respond invokes the transport exactly once with      *)
(* type stream, to = DisplayRecipient.Topic, subject = Subject, content =  *)
(* the reply, and never consults Users.                                    *)
C5_SubjectGivesStreamSend ==
    (op = "Respond" /\ arg.response # EmptyString /\ arg.e.Subject # EmptyString)
        => /\ StreamReplySent(arg.e, arg.response)
           /\ "privateResponseList" \notin Range(trace)

(* C5 (amended): for every non-empty reply and every event with a          *)
(* non-empty Subject, Respond takes the stream branch and never consults   *)
(* Users; when DisplayRecipient.Topic is non-empty too the transport is    *)
(* invoked exactly once with type stream, to = Topic, subject = Subject    *)
(* and content = the reply, and when Topic is empty Respond fails with     *)
(* "stream cannot be empty" and the transport is never invoked.            *)
C5_SubjectGivesStreamBranch ==
    (op = "Respond" /\ arg.response # EmptyString /\ arg.e.Subject # EmptyString)
        => /\ "privateResponseList" \notin Range(trace)
           /\ trace[2] = "Message"
           /\ IF arg.e.DisplayRecipient.Topic # EmptyString
              THEN StreamReplySent(arg.e, arg.response) /\ ReturnsTransportOutcome
              ELSE ret.err = NewError("stream cannot be empty") /\ NeverSent

(* C5 witness: a reply to an event with Subject, Topic and a user other    *)
(* than the bot went out as one stream request.                            *)
C5_Witness ==
    /\ op = "Respond"
    /\ arg.e.Subject # EmptyString
    /\ arg.e.DisplayRecipient.Topic # EmptyString
    /\ arg.e.DisplayRecipient.Users = Slice(<<NewUser(EmailA)>>)
    /\ Len(sent) = 1
    /\ FormValue(TheRequest.Body, "type") = <<"stream">>

(* The emails of the users other than the bot, in order. *)
OthersOf(e) ==
    LET others == SelectSeq(e.DisplayRecipient.Users.elems, LAMBDA u : u.Email # BotEmail)
    IN  [i \in 1..Len(others) |-> others[i].Email]

(* C6: for every non-empty reply and every event with empty Subject and    *)
(* empty DisplayRecipient.Topic, Respond sends one private message         *)
(* addressed to exactly the emails of the Users that differ from the       *)
(* bot's Email, in order; if there is none it fails with the no-recipients *)
(* error and never invokes the transport.                                  *)
C6_PrivateReplyRecipients ==
    (op = "Respond" /\ arg.response # EmptyString /\ arg.e.Subject = EmptyString
        /\ arg.e.DisplayRecipient.Topic = EmptyString)
        => IF OthersOf(arg.e) = <<>>
           THEN /\ ret.err = NewError("EventMessage had no Users within the DisplayRecipient")
                /\ ret.resp = NoResponse
                /\ NeverSent
           ELSE /\ SentOnce
                /\ ReturnsTransportOutcome
                /\ FormValue(TheRequest.Body, "type") = <<"private">>
                /\ FormValue(TheRequest.Body, "to") = JoinWith(OthersOf(arg.e), CommaSpace)
                /\ FormValue(TheRequest.Body, "content") = arg.response
                /\ "subject" \notin FormKeys(TheRequest.Body)

(* C6 witness: a private reply to a conversation of the bot and one other  *)
(* user was sent to that user alone.                                       *)
C6_Witness ==
    /\ op = "Respond"
    /\ arg.e.Subject = EmptyString
    /\ arg.e.DisplayRecipient.Topic = EmptyString
    /\ arg.e.DisplayRecipient.Users = Slice(<<NewUser(BotEmail), NewUser(EmailA)>>)
    /\ Len(sent) = 1
    /\ FormValue(TheRequest.Body, "to") = EmailA

(* The User records a JSON array of user objects holds. *)
UsersOf(raw) == [i \in 1..Len(raw.val) |-> NewUser(raw.val[i].val["email"].val)]

(* C7: decoding a well-formed display_recipient (a string, the empty one   *)
(* included, or an array of user records, the empty one included) into a   *)
(* fresh DisplayRecipient succeeds and stores into exactly one field: a    *)
(* string is stored into Topic and Users stays nil; an array is stored     *)
(* into Users, record by record in order and non-nil even when empty, and  *)
(* Topic stays empty.                                                      *)
C7_ExactlyOneVariant ==
    (op = "UnmarshalJSON" /\ arg.b \in WellFormedRecipients)
        => /\ ret.err = NoErr
           /\ Cardinality(ret.assigned) = 1
           /\ arg.b.kind = "string"
                => /\ ret.assigned = {"Topic"}
                   /\ ret.d.Topic = arg.b.val
                   /\ ret.d.Users = NilSlice
           /\ arg.b.kind = "array"
                => /\ ret.assigned = {"Users"}
                   /\ ret.d.Users = Slice(UsersOf(arg.b))
                   /\ ret.d.Topic = EmptyString

(* C7 witness: an empty array was decoded into an empty, non-nil Users. *)
C7_Witness ==
    /\ op = "UnmarshalJSON"
    /\ arg.b = JArray(<<>>)
    /\ ret.d.Users.isNil = FALSE
    /\ ret.d.Users.elems = <<>>

(* C8: no request whose content field is empty is ever handed to the       *)
(* transport's Do, by Message, by PrivateMessage called directly or by     *)
(* Respond.                                                                *)
C8_NoEmptyContentSent ==
    \A i \in 1..Len(sent) : FormValue(sent[i].Body, "content") # EmptyString

StreamValidationErrors ==
    {NewError("stream cannot be empty"), NewError("topic cannot be empty")}

(* C9: Bot.Message on a message with empty Emails and non-empty Content    *)
(* fails with a validation error exactly when Stream or Topic is empty,    *)
(* and then never invokes the transport; otherwise it invokes the          *)
(* transport exactly once with type=stream, to=Stream, subject=Topic,      *)
(* content=Content and returns the transport's response or error           *)
(* unchanged.                                                              *)
C9_StreamValidation ==
    (op = "Message" /\ Len(arg.m.Emails) = 0 /\ arg.m.Content # EmptyString)
        => IF arg.m.Stream = EmptyString \/ arg.m.Topic = EmptyString
           THEN /\ ret.err \in StreamValidationErrors
                /\ ret.resp = NoResponse
                /\ NeverSent
           ELSE /\ ret.err \notin StreamValidationErrors
                /\ SentOnce
                /\ ReturnsTransportOutcome
                /\ FormKeys(TheRequest.Body) = {"type", "to", "subject", "content"}
                /\ FormValue(TheRequest.Body, "type") = <<"stream">>
                /\ FormValue(TheRequest.Body, "to") = arg.m.Stream
                /\ FormValue(TheRequest.Body, "subject") = arg.m.Topic
                /\ FormValue(TheRequest.Body, "content") = arg.m.Content

(* C9 witness: a stream message with Stream set and Topic empty was        *)
(* rejected without reaching the transport.                                *)
C9_Witness ==
    /\ op = "Message"
    /\ Len(arg.m.Emails) = 0
    /\ arg.m.Content # EmptyString
    /\ arg.m.Stream # EmptyString
    /\ arg.m.Topic = EmptyString
    /\ ret.err = NewError("topic cannot be empty")
    /\ sent = <<>>

(* The branch of Respond a call went through. *)
TookStreamBranch == Len(trace) >= 2 /\ trace[2] = "Message"

TookPrivateBranch == Len(trace) >= 2 /\ trace[2] = "privateResponseList"

TookNotUnderstoodBranch ==
    /\ trace = <<"Respond">>
    /\ ret.err = <<"EventMessage is not understood: %v\n", arg.e>>
    /\ ret.resp = NoResponse

(* C10: for every non-empty reply, an event with empty Subject and         *)
(* non-empty DisplayRecipient.Topic makes Respond fail with the "not       *)
(* understood" error without calling Message or the transport; the stream  *)
(* branch is taken exactly for a non-empty Subject, the private branch     *)
(* exactly for empty Subject and empty Topic, the error branch exactly for *)
(* empty Subject and non-empty Topic, so every event takes exactly one.    *)
C10_ThreeWayClassification ==
    (op = "Respond" /\ arg.response # EmptyString)
        => LET subject == arg.e.Subject
               topic == arg.e.DisplayRecipient.Topic
           IN  /\ TookStreamBranch <=> subject # EmptyString
               /\ TookPrivateBranch <=> (subject = EmptyString /\ topic = EmptyString)
               /\ TookNotUnderstoodBranch <=> (subject = EmptyString /\ topic # EmptyString)
               /\ (subject = EmptyString /\ topic # EmptyString)
                    => NeverSent /\ "Message" \notin Range(trace)

(* C10 witness: a reply to an event with empty Subject, a Topic and a user *)
(* other than the bot failed as not understood.                            *)
C10_Witness ==
    /\ op = "Respond"
    /\ arg.response # EmptyString
    /\ arg.e.Subject = EmptyString
    /\ arg.e.DisplayRecipient.Topic # EmptyString
    /\ arg.e.DisplayRecipient.Users = Slice(<<NewUser(EmailA)>>)
    /\ Len(ret.err) = 2
    /\ sent = <<>>

====
